---- MODULE Spec2Model ----
(***************************************************************************)
(* Model of the unused-import remover: analyzeFile (src/src/analyzer.ts),  *)
(* the processFile step that applies its edits to the document, and the    *)
(* commands cleanCurrentFile and cleanProject (extension.ts).              *)
(*                                                                         *)
(* A document is a sequence of tokens; whitespace, line breaks and         *)
(* comments are tokens too, so the text of the document is exactly the     *)
(* concatenation of its tokens and every line/character position of the    *)
(* code can be computed from it.                                           *)
(***************************************************************************)
EXTENDS Integers, Sequences, FiniteSets, TLC

(***************************************************************************)
(* Bounds of the model.                                                    *)
(***************************************************************************)
MaxItems == 3        \* statements (or comments) in an input file
MaxSpecs == 2        \* named specifiers between the braces of one import
MaxRuns == 2         \* times the command is run on the same document
MaxFiles == 3        \* files of a project

(***************************************************************************)
(* Lexical classes.                                                        *)
(***************************************************************************)
Names == {"a", "b"}

IdentToks == Names \cup {"r", "o"}

ModuleTok == "'m'"

StringToks == {ModuleTok} \cup {"\"" \o n \o "\"" : n \in Names}

LineCommentToks == {"// " \o n : n \in Names}

BlockCommentToks == {"/* " \o n \o " */" : n \in Names}

TriviaToks == {" ", "\n"} \cup LineCommentToks \cup BlockCommentToks

isIdentifierTok(t) == t \in IdentToks

(***************************************************************************)
(* Sequence helpers.                                                       *)
(***************************************************************************)
\* the recursive helpers halve their argument, so that they nest
\* logarithmically deep
RECURSIVE Flatten(_)
Flatten(ss) ==
    IF Len(ss) = 0 THEN <<>>
    ELSE IF Len(ss) = 1 THEN ss[1]
    ELSE LET half == Len(ss) \div 2
         IN  Flatten(SubSeq(ss, 1, half)) \o Flatten(SubSeq(ss, half + 1, Len(ss)))

RECURSIVE Str(_)
Str(toks) ==
    IF Len(toks) = 0 THEN ""
    ELSE IF Len(toks) = 1 THEN toks[1]
    ELSE LET half == Len(toks) \div 2
         IN  Str(SubSeq(toks, 1, half)) \o Str(SubSeq(toks, half + 1, Len(toks)))

RECURSIVE join(_, _)
join(texts, sep) ==
    IF texts = <<>> THEN <<>>
    ELSE IF Len(texts) = 1 THEN Head(texts)
    ELSE Head(texts) \o sep \o join(Tail(texts), sep)

Range(s) == {s[i] : i \in 1..Len(s)}

Max(S) == CHOOSE m \in S : \A n \in S : n <= m

Min(S) == CHOOSE m \in S : \A n \in S : m <= n

(***************************************************************************)
(* Positions: sourceFile.getLineAndCharacterOfPosition.  A position is the *)
(* index of the token that starts there (Len + 1 is the end of the file).  *)
(***************************************************************************)
getLineAndCharacterOfPosition(text, pos) ==
    LET breaks == {j \in 1..(pos - 1) : text[j] = "\n"}
        lineStart == IF breaks = {} THEN 1 ELSE Max(breaks) + 1
    IN  [line |-> Cardinality(breaks),
         character |-> Len(Str(SubSeq(text, lineStart, pos - 1)))]

Position(l, c) == [line |-> l, character |-> c]

VsRange(sl, sc, el, ec) == [start |-> Position(sl, sc), end |-> Position(el, ec)]

isBefore(p, q) == p.line < q.line \/ (p.line = q.line /\ p.character < q.character)

isBeforeOrEqual(p, q) == p = q \/ isBefore(p, q)

(***************************************************************************)
(* ts.createSourceFile: the syntax tree of a text.  Statements end at ";"; *)
(* a node's getStart skips its leading trivia.  Nodes are records carrying *)
(* their positions, so two nodes are the same object iff they are equal.   *)
(***************************************************************************)
NoNode == [kind |-> "None"]

Identifier(text, i) == [kind |-> "Identifier", pos |-> i, end |-> i + 1, text |-> text[i]]

NextSemi(text, p) ==
    IF \E i \in p..Len(text) : text[i] = ";"
    THEN CHOOSE i \in p..Len(text) :
            text[i] = ";" /\ \A j \in p..(i - 1) : text[j] # ";"
    ELSE 0

RECURSIVE StatementSpans(_, _)
StatementSpans(text, p) ==
    IF p > Len(text) THEN <<>>
    ELSE LET semi == NextSemi(text, p)
             sig == {i \in p..Len(text) : text[i] \notin TriviaToks}
         IN  IF semi # 0
             THEN <<[from |-> p, to |-> semi]>> \o StatementSpans(text, semi + 1)
             ELSE IF sig = {} THEN <<>>
             ELSE <<[from |-> p, to |-> Max(sig)]>>

RECURSIVE parseImportSpecifiers(_, _, _, _)
parseImportSpecifiers(text, t, k, close) ==
    IF k >= close THEN <<>>
    ELSE IF text[t[k]] = "," THEN parseImportSpecifiers(text, t, k + 1, close)
    ELSE LET g == Min({j \in (k + 1)..close : text[t[j]] \in {",", "}"}})
             element == [kind |-> "ImportSpecifier",
                         pos |-> t[k], end |-> t[g - 1] + 1,
                         isTypeOnly |-> (text[t[k]] = "type" /\ g - 1 > k),
                         name |-> Identifier(text, t[g - 1])]
         IN  <<element>> \o parseImportSpecifiers(text, t, g, close)

parseStatement(text, span) ==
    LET t == SelectSeq([i \in 1..(span.to - span.from + 1) |-> span.from + i - 1],
                       LAMBDA i : text[i] \notin TriviaToks)
        tok(k) == IF k <= Len(t) THEN text[t[k]] ELSE "<eof>"
        typeOnly == tok(2) = "type"
        k1 == IF typeOnly THEN 3 ELSE 2
        hasDefault == isIdentifierTok(tok(k1))
        k2 == IF hasDefault THEN k1 + 1 ELSE k1
        k3 == IF hasDefault /\ tok(k2) = "," THEN k2 + 1 ELSE k2
        closes == {j \in (k3 + 1)..Len(t) : tok(j) = "}"}
        isNamed == tok(k3) = "{" /\ closes # {}
        isNamespace == tok(k3) = "*" /\ tok(k3 + 1) = "as" /\ isIdentifierTok(tok(k3 + 2))
        k4 == IF isNamed THEN Min(closes) + 1 ELSE IF isNamespace THEN k3 + 3 ELSE k3
        hasClause == hasDefault \/ isNamed \/ isNamespace
        k5 == IF hasClause THEN k4 + 1 ELSE k4
        wellFormed ==
            /\ tok(1) = "import"
            /\ hasClause => tok(k4) = "from"
            /\ (hasDefault /\ (isNamed \/ isNamespace)) => tok(k2) = ","
            /\ tok(k5) \in StringToks
            /\ tok(k5 + 1) = ";"
            /\ k5 + 1 = Len(t)
        namedBindings ==
            IF isNamed
            THEN [kind |-> "NamedImports",
                  elements |-> parseImportSpecifiers(text, t, k3 + 1, Min(closes))]
            ELSE IF isNamespace
            THEN [kind |-> "NamespaceImport", name |-> Identifier(text, t[k3 + 2])]
            ELSE NoNode
        importClause ==
            IF hasClause
            THEN [kind |-> "ImportClause", isTypeOnly |-> typeOnly,
                  name |-> IF hasDefault THEN Identifier(text, t[k1]) ELSE NoNode,
                  namedBindings |-> namedBindings]
            ELSE NoNode
    IN  IF wellFormed
        THEN [kind |-> "ImportDeclaration", pos |-> t[1], end |-> span.to + 1,
              importClause |-> importClause,
              moduleSpecifier |-> [kind |-> "StringLiteral", pos |-> t[k5], end |-> t[k5] + 1]]
        ELSE [kind |-> "Statement", pos |-> t[1], end |-> span.to + 1,
              identifiers |-> SelectSeq(t, LAMBDA i : isIdentifierTok(text[i]))]

createSourceFile(sourceCode) ==
    LET spans == StatementSpans(sourceCode, 1)
    IN  [text |-> sourceCode,
         statements |-> [i \in 1..Len(spans) |-> parseStatement(sourceCode, spans[i])]]

\* the statements in which the parser reports a syntax error: an import that
\* is no import declaration, and an initializer without expression.  The
\* parser builds the tree all the same, and analyzeFile never reads them.
parseDiagnostics(sourceFile) ==
    {i \in 1..Len(sourceFile.statements) :
        LET node == sourceFile.statements[i]
            sig == SelectSeq([k \in 1..(node.end - node.pos) |-> node.pos + k - 1],
                             LAMBDA j : sourceFile.text[j] \notin TriviaToks)
        IN  /\ node.kind = "Statement"
            /\ \/ sourceFile.text[node.pos] = "import"
               \/ \E k \in 1..(Len(sig) - 1) :
                        sourceFile.text[sig[k]] = "=" /\ sourceFile.text[sig[k + 1]] = ";"}

getText(node, sourceFile) == SubSeq(sourceFile.text, node.pos, node.end - 1)

isImportDeclaration(node) == node.kind = "ImportDeclaration"

isIdentifier(node) == node.kind = "Identifier"

isNamedImports(node) == node.kind = "NamedImports"

isNamespaceImportNode(node) == node.kind = "NamespaceImport"

(***************************************************************************)
(* analyzeFile, first pass: every Identifier node outside the import       *)
(* declarations.  In the syntax tree a property name, a binding name, an   *)
(* export specifier and a declared name are Identifier nodes like any      *)
(* reference; string contents and comments are not nodes.                  *)
(***************************************************************************)
\* a first pass that takes the name between braces for a property name
visit_shorthandAsKey(node, text) ==
    IF isImportDeclaration(node) THEN {}
    ELSE {text[i] : i \in {j \in Range(node.identifiers) :
                                ~(/\ j > 2 /\ j + 2 <= Len(text)
                                  /\ text[j - 2] = "{" /\ text[j + 2] = "}")}}

visit(node, text) ==
    IF isImportDeclaration(node) THEN {}
    ELSE {text[i] : i \in Range(node.identifiers)}

\* a first pass that searches the text of the statements for the names
collectIdentifiers_textSearch(sourceFile) ==
    UNION {visit(sourceFile.statements[i], sourceFile.text) :
                i \in 1..Len(sourceFile.statements)}
    \cup {n \in Names :
            \E i \in 1..Len(sourceFile.statements) :
                /\ ~isImportDeclaration(sourceFile.statements[i])
                /\ \E j \in sourceFile.statements[i].pos..(sourceFile.statements[i].end - 1) :
                        sourceFile.text[j] = "\"" \o n \o "\""}

collectIdentifiers(sourceFile) ==
    UNION {visit(sourceFile.statements[i], sourceFile.text) :
                i \in 1..Len(sourceFile.statements)}

(***************************************************************************)
(* analyzeFile, second pass: the imported symbols of every top-level       *)
(* import declaration, in file order.  parent is the index of the          *)
(* declaration among the statements of the file.                           *)
(***************************************************************************)
symbolsOf(node, parent) ==
    IF ~isImportDeclaration(node) \/ node.importClause = NoNode THEN <<>>
    ELSE LET importClause == node.importClause
             fromName ==
                 IF importClause.name # NoNode
                 THEN <<[name |-> importClause.name.text,
                         node |-> importClause.name, parent |-> parent]>>
                 ELSE <<>>
             fromBindings ==
                 IF importClause.namedBindings = NoNode THEN <<>>
                 ELSE IF isNamedImports(importClause.namedBindings)
                 THEN [k \in 1..Len(importClause.namedBindings.elements) |->
                         [name |-> importClause.namedBindings.elements[k].name.text,
                          node |-> importClause.namedBindings.elements[k],
                          parent |-> parent]]
                 ELSE IF isNamespaceImportNode(importClause.namedBindings)
                 THEN <<[name |-> importClause.namedBindings.name.text,
                         node |-> importClause.namedBindings.name, parent |-> parent]>>
                 ELSE <<>>
         IN  fromName \o fromBindings

collectImportedSymbols(sourceFile) ==
    Flatten([i \in 1..Len(sourceFile.statements) |->
                symbolsOf(sourceFile.statements[i], i)])

(***************************************************************************)
(* analyzeFile: the unused symbols, grouped by their declaration in the    *)
(* insertion order of a Map.                                               *)
(***************************************************************************)
\* a filter that forgets the default and namespace bindings
unusedSymbolsOf_specifiersOnly(symbols, identifiers) ==
    SelectSeq(symbols, LAMBDA symbol :
                symbol.name \notin identifiers /\ ~isIdentifier(symbol.node))

unusedSymbolsOf(symbols, identifiers) ==
    SelectSeq(symbols, LAMBDA symbol : symbol.name \notin identifiers)

groupByDeclaration(unusedSymbols) ==
    LET parents == [k \in 1..Len(unusedSymbols) |-> unusedSymbols[k].parent]
        firsts == SelectSeq([k \in 1..Len(parents) |-> k],
                            LAMBDA k : \A j \in 1..(k - 1) : parents[j] # parents[k])
    IN  [g \in 1..Len(firsts) |->
            LET declaration == parents[firsts[g]]
                mine == SelectSeq(unusedSymbols, LAMBDA symbol : symbol.parent = declaration)
            IN  [declaration |-> declaration,
                 unusedNodes |-> [k \in 1..Len(mine) |-> mine[k].node]]]

(***************************************************************************)
(* getRange and the text edits.  A delete is a text edit with empty text.  *)
(***************************************************************************)
\* a range that starts at the beginning of the line of the node
getRange_fromLineStart(sourceFile, node) ==
    LET start == getLineAndCharacterOfPosition(sourceFile.text, node.pos)
        end == getLineAndCharacterOfPosition(sourceFile.text, node.end)
    IN  VsRange(start.line, 0, end.line, end.character)

getRange(sourceFile, node) ==
    LET start == getLineAndCharacterOfPosition(sourceFile.text, node.pos)
        end == getLineAndCharacterOfPosition(sourceFile.text, node.end)
    IN  VsRange(start.line, start.character, end.line, end.character)

TextEditDelete(range) == [range |-> range, newText |-> <<>>]

TextEditReplace(range, newText) == [range |-> range, newText |-> newText]

isWhitespace(t) == t \in {" ", "\n"}

RECURSIVE trimStart(_)
trimStart(toks) ==
    IF toks # <<>> /\ isWhitespace(Head(toks)) THEN trimStart(Tail(toks)) ELSE toks

RECURSIVE trimEnd(_)
trimEnd(toks) ==
    IF toks # <<>> /\ isWhitespace(toks[Len(toks)])
    THEN trimEnd(SubSeq(toks, 1, Len(toks) - 1)) ELSE toks

trim(toks) == trimEnd(trimStart(toks))

(***************************************************************************)
(* analyzeFile, one iteration of the loop that creates the edits: the      *)
(* edits (none or one) of a declaration that has unused nodes.             *)
(***************************************************************************)
wholeLines(sourceFile, declaration) ==
    LET range == getRange(sourceFile, declaration)
    IN  VsRange(range.start.line, 0, range.end.line + 1, 0)

parentOf(declaration, node) ==
    IF declaration.importClause.name = node
    THEN declaration.importClause
    ELSE declaration.importClause.namedBindings

usedSpecifiersOf(declaration, unusedNodes) ==
    IF isNamedImports(declaration.importClause.namedBindings)
    THEN SelectSeq(declaration.importClause.namedBindings.elements,
                LAMBDA element : ~\E unused \in Range(unusedNodes) : unused = element)
    ELSE <<>>   \* undefined in the code, which tests it together with length 0

\* a rebuild that separates the kept specifiers by a comma without a space
newImportOf_tightJoin(sourceFile, declaration, defaultImportName, usedSpecifiers) ==
    <<"import", " ">>
    \o (IF defaultImportName # <<>>
        THEN defaultImportName
             \o (IF Len(usedSpecifiers) > 0 THEN <<",", " ">> ELSE <<>>)
        ELSE <<>>)
    \o (IF Len(usedSpecifiers) > 0
        THEN <<"{", " ">>
             \o join([k \in 1..Len(usedSpecifiers) |->
                        getText(usedSpecifiers[k], sourceFile)], <<",">>)
             \o <<" ", "}">>
        ELSE <<>>)
    \o <<" ", "from", " ">> \o getText(declaration.moduleSpecifier, sourceFile) \o <<";">>

newImportOf(sourceFile, declaration, defaultImportName, usedSpecifiers) ==
    <<"import", " ">>
    \o (IF defaultImportName # <<>>
        THEN defaultImportName
             \o (IF Len(usedSpecifiers) > 0 THEN <<",", " ">> ELSE <<>>)
        ELSE <<>>)
    \o (IF Len(usedSpecifiers) > 0
        THEN <<"{", " ">>
             \o join([k \in 1..Len(usedSpecifiers) |->
                        getText(usedSpecifiers[k], sourceFile)], <<",", " ">>)
             \o <<" ", "}">>
        ELSE <<>>)
    \o <<" ", "from", " ">> \o getText(declaration.moduleSpecifier, sourceFile) \o <<";">>

\* an edit loop without the branch that deletes a statement whose namespace
\* binding is unused
editsFor_noNamespaceBranch(sourceFile, declaration, unusedNodes) ==
    LET importClause == declaration.importClause
        isDefaultImportUnused ==
            \E node \in Range(unusedNodes) : isIdentifier(node) /\ importClause.name = node
        usedSpecifiers == usedSpecifiersOf(declaration, unusedNodes)
        isDefaultImportUsed == importClause.name # NoNode /\ ~isDefaultImportUnused
        defaultImportName ==
            IF isDefaultImportUsed THEN getText(importClause.name, sourceFile) ELSE <<>>
        newImport == newImportOf(sourceFile, declaration, defaultImportName, usedSpecifiers)
    IN  IF defaultImportName = <<>> /\ Len(usedSpecifiers) = 0
        THEN <<TextEditDelete(wholeLines(sourceFile, declaration))>>
        ELSE IF trim(newImport) # trim(getText(declaration, sourceFile))
        THEN <<TextEditReplace(getRange(sourceFile, declaration), newImport)>>
        ELSE <<>>

editsFor(sourceFile, declaration, unusedNodes) ==
    LET importClause == declaration.importClause
        isDefaultImportUnused ==
            \E node \in Range(unusedNodes) : isIdentifier(node) /\ importClause.name = node
        usedSpecifiers == usedSpecifiersOf(declaration, unusedNodes)
        isNamespaceImport == isNamespaceImportNode(importClause.namedBindings)
        isNamespaceImportUsed ==
            isNamespaceImport
            /\ ~\E node \in Range(unusedNodes) :
                    isIdentifier(node) /\ parentOf(declaration, node).name = node
        isDefaultImportUsed == importClause.name # NoNode /\ ~isDefaultImportUnused
        defaultImportName ==
            IF isDefaultImportUsed THEN getText(importClause.name, sourceFile) ELSE <<>>
        newImport == newImportOf(sourceFile, declaration, defaultImportName, usedSpecifiers)
        originalImport == getText(declaration, sourceFile)
    IN  IF isNamespaceImport /\ ~isNamespaceImportUsed
        THEN <<TextEditDelete(wholeLines(sourceFile, declaration))>>
        ELSE IF defaultImportName = <<>> /\ Len(usedSpecifiers) = 0
        THEN <<TextEditDelete(wholeLines(sourceFile, declaration))>>
        ELSE IF trim(newImport) # trim(originalImport)
        THEN <<TextEditReplace(getRange(sourceFile, declaration), newImport)>>
        ELSE <<>>

\* an edit loop that also rewrites the statements without unused binding
createEdits_rewriteAll(sourceFile, groups) ==
    Flatten([g \in 1..Len(groups) |->
                editsFor(sourceFile, sourceFile.statements[groups[g].declaration],
                         groups[g].unusedNodes)])
    \o Flatten([i \in 1..Len(sourceFile.statements) |->
                    IF /\ isImportDeclaration(sourceFile.statements[i])
                       /\ sourceFile.statements[i].importClause # NoNode
                       /\ \A g \in 1..Len(groups) : groups[g].declaration # i
                    THEN <<TextEditReplace(getRange(sourceFile, sourceFile.statements[i]),
                                           getText(sourceFile.statements[i], sourceFile))>>
                    ELSE <<>>])

createEdits(sourceFile, groups) ==
    Flatten([g \in 1..Len(groups) |->
                editsFor(sourceFile, sourceFile.statements[groups[g].declaration],
                         groups[g].unusedNodes)])

(***************************************************************************)
(* processFile: workspace.applyEdit of the edits of one document.  The     *)
(* host applies the edits of a document all together or not at all; edits  *)
(* whose ranges overlap are refused.                                       *)
(***************************************************************************)
rangesOverlap(r, q) == isBefore(r.start, q.end) /\ isBefore(q.start, r.end)

overlapping(textEdits) ==
    \E i, j \in 1..Len(textEdits) :
        i # j /\ rangesOverlap(textEdits[i].range, textEdits[j].range)

tokenStart(text, i) == getLineAndCharacterOfPosition(text, i)

tokenEnd(text, i) == getLineAndCharacterOfPosition(text, i + 1)

covers(range, text, i) ==
    /\ isBeforeOrEqual(range.start, tokenStart(text, i))
    /\ isBeforeOrEqual(tokenEnd(text, i), range.end)

applyTextEdits(text, textEdits) ==
    Flatten([i \in 1..Len(text) |->
        LET inserted == Flatten([k \in 1..Len(textEdits) |->
                            IF textEdits[k].range.start = tokenStart(text, i)
                            THEN textEdits[k].newText ELSE <<>>])
            removed == \E k \in 1..Len(textEdits) : covers(textEdits[k].range, text, i)
        IN  inserted \o (IF removed THEN <<>> ELSE <<text[i]>>)])

(***************************************************************************)
(* Input files.  An item is an import statement, a statement of code or a  *)
(* comment; a file is the text of its items, one after the other, on the   *)
(* same line or on the next one.                                           *)
(***************************************************************************)
SeqsUpTo(S, n) == UNION {[1..k -> S] : k \in 0..n}

Specifiers == [form : {"plain", "alias", "type"}, name : Names]

renderSpecifier(sp) ==
    CASE sp.form = "plain" -> <<sp.name>>
      [] sp.form = "alias" -> <<"o", " ", "as", " ", sp.name>>
      [] sp.form = "type" -> <<"type", " ", sp.name>>
      [] sp.form = "aliasOnTwoLines" -> <<"o", " ", "as", "\n", sp.name>>

renderImport(item) ==
    LET hasBindings == item.ns # "" \/ item.braces
        hasClause == item.def # "" \/ hasBindings
        specs == [k \in 1..Len(item.named) |-> renderSpecifier(item.named[k])]
        braces ==
            IF item.named = <<>> THEN <<"{", "}">>
            ELSE IF item.multi
            THEN <<"{", "\n">>
                 \o join([k \in 1..Len(specs) |-> <<" ">> \o specs[k]], <<",", "\n">>)
                 \o <<"\n", "}">>
            ELSE <<"{", " ">> \o join(specs, <<",", " ">>) \o <<" ", "}">>
    IN  <<"import", " ">>
        \o (IF item.typeOnly THEN <<"type", " ">> ELSE <<>>)
        \o (IF item.def # "" THEN <<item.def>> ELSE <<>>)
        \o (IF item.def # "" /\ hasBindings THEN <<",", " ">> ELSE <<>>)
        \o (IF item.ns # "" THEN <<"*", " ", "as", " ", item.ns>> ELSE <<>>)
        \o (IF item.braces THEN braces ELSE <<>>)
        \o (IF hasClause THEN <<" ", "from", " ">> ELSE <<>>)
        \o <<ModuleTok, ";">>

renderCode(item) ==
    LET n == item.name
    IN  CASE item.form = "ref" -> <<n, ";">>
          [] item.form = "shorthand" -> <<"(", "{", " ", n, " ", "}", ")", ";">>
          [] item.form = "key" -> <<"(", "{", " ", n, ":", " ", "1", " ", "}", ")", ";">>
          [] item.form = "destructure" ->
                <<"const", " ", "{", " ", n, ":", " ", "r", " ", "}", " ", "=", " ", "o", ";">>
          [] item.form = "declare" -> <<"const", " ", n, " ", "=", " ", "1", ";">>
          [] item.form = "string" -> <<"\"" \o n \o "\"", ";">>
          [] item.form = "broken" -> <<"const", " ", n, " ", "=", " ", ";">>
          [] item.form = "reexport" ->
                <<"export", " ", "{", " ", n, " ", "}", " ", "from", " ", ModuleTok, ";">>
          [] item.form = "lineComment" -> <<"// " \o n>>
          [] item.form = "blockComment" -> <<"/* " \o n \o " */">>

render(item) == IF item.kind = "import" THEN renderImport(item) ELSE renderCode(item)

\* an import statement of any shape
ImportShapes ==
    {item \in [kind : {"import"}, typeOnly : BOOLEAN, def : Names \cup {""},
               ns : Names \cup {""}, braces : BOOLEAN,
               named : SeqsUpTo(Specifiers, MaxSpecs), multi : BOOLEAN] :
        /\ item.ns # "" => ~item.braces
        /\ ~item.braces => item.named = <<>>
        /\ item.multi => item.named # <<>>
        /\ item.typeOnly => (item.def # "" \/ item.ns # "" \/ item.braces)}

CodeForms ==
    [kind : {"code"},
     form : {"ref", "shorthand", "key", "destructure", "declare", "string", "broken",
             "reexport", "lineComment", "blockComment"},
     name : Names]

\* the items of the files that vary the layout: imports of one or two names,
\* on one line or on several, and references
LayoutItems ==
    {item \in ImportShapes :
        /\ ~item.typeOnly /\ item.def = "" /\ item.ns = ""
        /\ item.named \in {<<[form |-> "plain", name |-> "a"]>>,
                           <<[form |-> "plain", name |-> "b"]>>,
                           <<[form |-> "plain", name |-> "a"],
                             [form |-> "plain", name |-> "b"]>>}
        /\ item.multi => Len(item.named) = 2}
    \cup {item \in CodeForms : item.form = "ref"}

Separators == {" ", "\n"}

RECURSIVE renderFile(_, _)
renderFile(items, seps) ==
    IF items = <<>> THEN <<>>
    ELSE render(Head(items))
         \o (IF Len(items) = 1 THEN <<>>
             ELSE <<IF Head(items).kind = "code" /\ Head(items).form = "lineComment"
                    THEN "\n" ELSE Head(seps)>>
                  \o renderFile(Tail(items), Tail(seps)))

FilesOf(itemSeqs) ==
    UNION {{renderFile(items, seps) : seps \in [1..(Len(items) - 1) -> Separators]} :
                items \in itemSeqs}

\* one import statement of any shape, and references to some of the names or
\* a local declaration of one
ShapeFiles ==
    FilesOf({<<imp>> \o refs :
                imp \in ImportShapes,
                refs \in {<<>>, <<[kind |-> "code", form |-> "ref", name |-> "a"]>>,
                          <<[kind |-> "code", form |-> "declare", name |-> "a"]>>,
                          <<[kind |-> "code", form |-> "ref", name |-> "b"]>>,
                          <<[kind |-> "code", form |-> "ref", name |-> "a"],
                            [kind |-> "code", form |-> "ref", name |-> "b"]>>}})

\* an import for its side effects only
SideEffectImports ==
    {item \in ImportShapes : item.def = "" /\ item.ns = "" /\ ~item.braces}

\* an import on several lines one of whose specifiers is itself on two lines
TwoLineSpecifierImport ==
    [kind |-> "import", typeOnly |-> FALSE, def |-> "", ns |-> "", braces |-> TRUE,
     named |-> <<[form |-> "aliasOnTwoLines", name |-> "a"],
                 [form |-> "plain", name |-> "b"]>>,
     multi |-> TRUE]

\* an import of one or two names, and one statement of code of any form or a
\* side-effect import
UsageFiles ==
    FilesOf({<<imp, code>> :
                imp \in {item \in LayoutItems : item.kind = "import" /\ ~item.multi}
                            \cup {TwoLineSpecifierImport},
                code \in CodeForms \cup SideEffectImports})

\* up to MaxItems simple items in every layout
LayoutFiles == FilesOf(SeqsUpTo(LayoutItems, MaxItems))

InputFiles == ShapeFiles \cup UsageFiles \cup LayoutFiles

(***************************************************************************)
(* The state: the text of the open document, the place of the command in   *)
(* processFile and analyzeFile, and the variables of analyzeFile.          *)
(***************************************************************************)
VARIABLES document, pc, runs, sourceFile, allIdentifiers, importedSymbols,
          unusedImportsByDeclaration, edits, applied, changed, message,
          files, fileIndex, isCancellationRequested, processedCount, errorCount,
          batchPc, opened, failed

\* the state of the command on one document
fileVars == <<document, pc, runs, sourceFile, allIdentifiers, importedSymbols,
              unusedImportsByDeclaration, edits, applied, changed>>

\* the state of the command on the project
batchVars == <<files, fileIndex, isCancellationRequested, processedCount, errorCount,
               batchPc, opened, failed>>

vars == <<fileVars, message, batchVars>>

\* no command on the project is running
NoBatch ==
    /\ files = <<>>
    /\ fileIndex = 0
    /\ isCancellationRequested = FALSE
    /\ processedCount = 0
    /\ errorCount = 0
    /\ batchPc = "idle"
    /\ opened = {}
    /\ failed = {}

\* no command on a document is running
NoFile ==
    /\ document = <<>>
    /\ pc = "idle"
    /\ runs = 0
    /\ sourceFile = [text |-> <<>>, statements |-> <<>>]
    /\ allIdentifiers = {}
    /\ importedSymbols = <<>>
    /\ unusedImportsByDeclaration = <<>>
    /\ edits = <<>>
    /\ applied = FALSE
    /\ changed = FALSE

Init ==
    /\ document \in InputFiles
    /\ pc = "idle"
    /\ runs = 0
    /\ sourceFile = [text |-> <<>>, statements |-> <<>>]
    /\ allIdentifiers = {}
    /\ importedSymbols = <<>>
    /\ unusedImportsByDeclaration = <<>>
    /\ edits = <<>>
    /\ applied = FALSE
    /\ changed = FALSE
    /\ message = "none"
    /\ NoBatch

\* processFile calls analyzeFile(document.getText(), ...): the text is parsed.
\* The command is run again only on a document that it has rewritten (on an
\* unchanged document a second run repeats the first).
analyzeFile ==
    /\ pc = "idle"
    /\ runs < MaxRuns
    /\ runs = 0 \/ applied
    /\ pc' = "firstPass"
    /\ sourceFile' = createSourceFile(document)
    /\ allIdentifiers' = {}
    /\ importedSymbols' = <<>>
    /\ unusedImportsByDeclaration' = <<>>
    /\ edits' = <<>>
    /\ UNCHANGED <<document, runs, applied, changed, message, batchVars>>

FirstPass ==
    /\ pc = "firstPass"
    /\ pc' = "secondPass"
    /\ allIdentifiers' = collectIdentifiers(sourceFile)
    /\ UNCHANGED <<document, runs, sourceFile, importedSymbols,
                   unusedImportsByDeclaration, edits, applied, changed, message,
                   batchVars>>

SecondPass ==
    /\ pc = "secondPass"
    /\ pc' = "group"
    /\ importedSymbols' = collectImportedSymbols(sourceFile)
    /\ UNCHANGED <<document, runs, sourceFile, allIdentifiers,
                   unusedImportsByDeclaration, edits, applied, changed, message,
                   batchVars>>

GroupUnused ==
    /\ pc = "group"
    /\ pc' = "createEdits"
    /\ unusedImportsByDeclaration' =
            groupByDeclaration(unusedSymbolsOf(importedSymbols, allIdentifiers))
    /\ UNCHANGED <<document, runs, sourceFile, allIdentifiers, importedSymbols,
                   edits, applied, changed, message, batchVars>>

CreateEdits ==
    /\ pc = "createEdits"
    /\ pc' = "analyzed"
    /\ edits' = createEdits(sourceFile, unusedImportsByDeclaration)
    /\ UNCHANGED <<document, runs, sourceFile, allIdentifiers, importedSymbols,
                   unusedImportsByDeclaration, applied, changed, message, batchVars>>

\* processFile with the edits that analyzeFile returned: the result of
\* applyEdit is not read, and processFile returns true when there are edits;
\* cleanCurrentFile then shows its message
processFile ==
    /\ pc = "analyzed"
    /\ pc' = "idle"
    /\ runs' = runs + 1
    /\ IF Len(edits) > 0 /\ ~overlapping(edits)
       THEN document' = applyTextEdits(document, edits) /\ applied' = TRUE
       ELSE document' = document /\ applied' = FALSE
    /\ changed' = (Len(edits) > 0)
    /\ message' = "Unused imports removed"
    /\ UNCHANGED <<sourceFile, allIdentifiers, importedSymbols,
                   unusedImportsByDeclaration, edits, batchVars>>

\* processFile throws (applyEdit rejects): cleanCurrentFile catches it
processFileThrows ==
    /\ pc = "analyzed"
    /\ Len(edits) > 0
    /\ pc' = "idle"
    /\ runs' = runs + 1
    /\ applied' = FALSE
    /\ changed' = FALSE
    /\ message' = "Error processing file"
    /\ UNCHANGED <<document, sourceFile, allIdentifiers, importedSymbols,
                   unusedImportsByDeclaration, edits, batchVars>>

Next ==
    \/ analyzeFile
    \/ FirstPass
    \/ SecondPass
    \/ GroupUnused
    \/ CreateEdits
    \/ processFile
    \/ processFileThrows

Spec == Init /\ [][Next]_vars

(***************************************************************************)
(* cleanProject: the command on the files of the project, one after the    *)
(* other, under a progress notification that the user may cancel.          *)
(***************************************************************************)
\* the texts of the files of a project: an unused import, a used import, two
\* unused imports on one line (edits that the host refuses), no import
unusedImportText ==
    <<"import", " ", "{", " ", "a", " ", "}", " ", "from", " ", ModuleTok, ";", "\n",
      "b", ";">>

usedImportText ==
    <<"import", " ", "{", " ", "a", " ", "}", " ", "from", " ", ModuleTok, ";", "\n",
      "a", ";">>

sameLineImportsText ==
    <<"import", " ", "{", " ", "a", " ", "}", " ", "from", " ", ModuleTok, ";", " ",
      "import", " ", "{", " ", "b", " ", "}", " ", "from", " ", ModuleTok, ";">>

noImportText == <<"a", ";">>

ProjectTexts == {unusedImportText, usedImportText, sameLineImportsText, noImportText}

InitBatch ==
    /\ files \in SeqsUpTo(ProjectTexts, MaxFiles)
    /\ fileIndex = 0
    /\ isCancellationRequested = FALSE
    /\ processedCount = 0
    /\ errorCount = 0
    /\ batchPc = "idle"
    /\ opened = {}
    /\ failed = {}
    /\ message = "none"
    /\ NoFile

\* findFiles, and the return when there is no file
cleanProject ==
    /\ batchPc = "idle"
    /\ IF Len(files) = 0
       THEN /\ message' = "No TypeScript or JavaScript files found"
            /\ batchPc' = "returned"
            /\ UNCHANGED fileIndex
       ELSE /\ batchPc' = "for"
            /\ fileIndex' = 1
            /\ UNCHANGED message
    /\ UNCHANGED <<files, isCancellationRequested, processedCount, errorCount,
                   opened, failed, fileVars>>

\* the user cancels the progress notification
cancel ==
    /\ batchPc \in {"for", "try"}
    /\ ~isCancellationRequested
    /\ isCancellationRequested' = TRUE
    /\ UNCHANGED <<files, fileIndex, processedCount, errorCount, batchPc, opened,
                   failed, message, fileVars>>

\* if (token.isCancellationRequested) break; and the end of the loop
break ==
    /\ batchPc = "for"
    /\ isCancellationRequested \/ fileIndex > Len(files)
    /\ batchPc' = "progressDone"
    /\ UNCHANGED <<files, fileIndex, isCancellationRequested, processedCount,
                   errorCount, opened, failed, message, fileVars>>

\* an iteration that does not look at the cancellation token
openTextDocument_ignoringToken ==
    /\ batchPc = "for"
    /\ fileIndex <= Len(files)
    /\ opened' = opened \cup {fileIndex}
    /\ document' = files[fileIndex]
    /\ batchPc' = "try"
    /\ UNCHANGED <<files, fileIndex, isCancellationRequested, processedCount,
                   errorCount, failed, message, pc, runs, sourceFile, allIdentifiers,
                   importedSymbols, unusedImportsByDeclaration, edits, applied,
                   changed>>

\* const document = await vscode.workspace.openTextDocument(file)
openTextDocument ==
    /\ batchPc = "for"
    /\ ~isCancellationRequested
    /\ fileIndex <= Len(files)
    /\ opened' = opened \cup {fileIndex}
    /\ document' = files[fileIndex]
    /\ batchPc' = "try"
    /\ UNCHANGED <<files, fileIndex, isCancellationRequested, processedCount,
                   errorCount, failed, message, pc, runs, sourceFile, allIdentifiers,
                   importedSymbols, unusedImportsByDeclaration, edits, applied,
                   changed>>

\* openTextDocument rejects: the await stands before the try block, so the
\* rejection leaves the loop, the progress callback and the command
openTextDocumentRejects ==
    /\ batchPc = "for"
    /\ ~isCancellationRequested
    /\ fileIndex <= Len(files)
    /\ failed' = failed \cup {fileIndex}
    /\ batchPc' = "rejected"
    /\ UNCHANGED <<files, fileIndex, isCancellationRequested, processedCount,
                   errorCount, opened, message, fileVars>>

\* try { const changed = await processFile(document); ... }: processFile calls
\* analyzeFile, whose steps are FirstPass .. CreateEdits
analyzeFileInLoop == batchPc = "try" /\ analyzeFile

\* ... processFile applies the edits and returns; if (changed) processedCount++
processFileInLoop ==
    /\ batchPc = "try"
    /\ pc = "analyzed"
    /\ pc' = "idle"
    /\ IF Len(edits) > 0 /\ ~overlapping(edits)
       THEN /\ document' = applyTextEdits(document, edits)
            /\ files' = [files EXCEPT ![fileIndex] = applyTextEdits(document, edits)]
            /\ applied' = TRUE
       ELSE /\ UNCHANGED <<document, files>>
            /\ applied' = FALSE
    /\ changed' = (Len(edits) > 0)
    /\ processedCount' = IF Len(edits) > 0 THEN processedCount + 1 ELSE processedCount
    /\ fileIndex' = fileIndex + 1
    /\ batchPc' = "for"
    /\ UNCHANGED <<isCancellationRequested, errorCount, opened, failed, message, runs,
                   sourceFile, allIdentifiers, importedSymbols,
                   unusedImportsByDeclaration, edits>>

\* catch (error) { errorCount++; ... }: processFile throws (applyEdit rejects)
catchError ==
    /\ batchPc = "try"
    /\ pc = "analyzed"
    /\ Len(edits) > 0
    /\ pc' = "idle"
    /\ applied' = FALSE
    /\ changed' = FALSE
    /\ errorCount' = errorCount + 1
    /\ failed' = failed \cup {fileIndex}
    /\ fileIndex' = fileIndex + 1
    /\ batchPc' = "for"
    /\ UNCHANGED <<files, isCancellationRequested, processedCount, opened, message,
                   document, runs, sourceFile, allIdentifiers, importedSymbols,
                   unusedImportsByDeclaration, edits>>

\* showInformationMessage(`Project scan complete. ...`)
showInformationMessage ==
    /\ batchPc = "progressDone"
    /\ message' = "Project scan complete"
    /\ batchPc' = "returned"
    /\ UNCHANGED <<files, fileIndex, isCancellationRequested, processedCount,
                   errorCount, opened, failed, fileVars>>

NextBatch ==
    \/ cleanProject
    \/ cancel
    \/ break
    \/ openTextDocument
    \/ openTextDocumentRejects
    \/ analyzeFileInLoop
    \/ FirstPass
    \/ SecondPass
    \/ GroupUnused
    \/ CreateEdits
    \/ processFileInLoop
    \/ catchError
    \/ showInformationMessage

SpecBatch == InitBatch /\ [][NextBatch]_vars

(***************************************************************************)
(* Vocabulary of the properties.                                           *)
(***************************************************************************)
statements == sourceFile.statements

Declarations == {i \in 1..Len(statements) : isImportDeclaration(statements[i])}

\* the bound names of declaration i, in the order of the statement
boundNames(i) == symbolsOf(statements[i], i)

isUsed(symbol) == symbol.name \in allIdentifiers

kept(i) == SelectSeq(boundNames(i), isUsed)

removed(i) == SelectSeq(boundNames(i), LAMBDA symbol : ~isUsed(symbol))

hasNamespace(i) ==
    /\ statements[i].importClause # NoNode
    /\ isNamespaceImportNode(statements[i].importClause.namedBindings)

isDeleteRange(edit) == edit.newText = <<>>

isReplaceRange(edit) == edit.newText # <<>>

Analyzed == pc = "analyzed"

\* the command has just rewritten the document; sourceFile and edits are
\* still those of the text before the rewrite
Rewritten == pc = "idle" /\ runs > 0 /\ applied

\* the bound names of the import statements of a text
bindingsOfText(text) == collectImportedSymbols(createSourceFile(text))

\* a text binds the name of a symbol with the same kind of binding and text
bindsLike(text, symbol) ==
    LET parsed == createSourceFile(text)
        found == collectImportedSymbols(parsed)
    IN  \E k \in 1..Len(found) :
            /\ found[k].name = symbol.name
            /\ found[k].node.kind = symbol.node.kind
            /\ getText(found[k].node, parsed) = getText(symbol.node, sourceFile)

\* the tokens s[k..] stand in t[p..] in the same order
RECURSIVE embeds(_, _, _, _)
embeds(s, k, t, p) ==
    IF k > Len(s) THEN TRUE
    ELSE LET found == {j \in p..Len(t) : t[j] = s[k]}
         IN  found # {} /\ embeds(s, k + 1, t, Min(found) + 1)

isSubsequence(s, t) == embeds(s, 1, t, 1)

RECURSIVE joinStr(_, _)
joinStr(strings, sep) ==
    IF strings = <<>> THEN ""
    ELSE IF Len(strings) = 1 THEN Head(strings)
    ELSE Head(strings) \o sep \o joinStr(Tail(strings), sep)

groups == unusedImportsByDeclaration

groupsOf(i) == {g \in 1..Len(groups) : groups[g].declaration = i}

\* the edits that the loop created for declaration i (one edit per group)
editsOf(i) == {edits[g] : g \in {h \in groupsOf(i) : h <= Len(edits)}}

\* the non-trivia tokens next to token i of the analyzed text
prevSig(i) ==
    LET before == {j \in 1..(i - 1) : sourceFile.text[j] \notin TriviaToks}
    IN  IF before = {} THEN "" ELSE sourceFile.text[Max(before)]

nextSig(i) ==
    LET after == {j \in (i + 1)..Len(sourceFile.text) : sourceFile.text[j] \notin TriviaToks}
    IN  IF after = {} THEN "" ELSE sourceFile.text[Min(after)]

\* the places where name n stands as an identifier outside the import declarations
occurrences(n) ==
    {i \in 1..Len(sourceFile.text) :
        /\ sourceFile.text[i] = n
        /\ \E k \in 1..Len(statements) :
                /\ ~isImportDeclaration(statements[k])
                /\ statements[k].pos <= i /\ i < statements[k].end}

statementAt(i) ==
    CHOOSE k \in 1..Len(statements) : statements[k].pos <= i /\ i < statements[k].end

\* { n: ... } in an object literal or in a destructuring pattern
isPropertyKey(i) == prevSig(i) = "{" /\ nextSig(i) = ":"

\* { n } in an object literal
isShorthandProperty(i) ==
    /\ prevSig(i) = "{" /\ nextSig(i) = "}"
    /\ sourceFile.text[statements[statementAt(i)].pos] = "("

(***************************************************************************)
(* C1 (Conservatism).  A binding whose local name is in the usage set is   *)
(* never removed by the edits: no delete range covers its statement, and   *)
(* an edit that touches its statement is the replacement of that statement *)
(* and its new text still has the binding.                                 *)
(***************************************************************************)
C1_Conservatism ==
    Analyzed =>
        \A k \in 1..Len(importedSymbols), e \in 1..Len(edits) :
            LET symbol == importedSymbols[k]
                range == getRange(sourceFile, statements[symbol.parent])
            IN  (isUsed(symbol) /\ rangesOverlap(edits[e].range, range)) =>
                    /\ isReplaceRange(edits[e])
                    /\ edits[e].range = range
                    /\ bindsLike(edits[e].newText, symbol)

(***************************************************************************)
(* C2 (Completeness).  A bound name whose local name is absent from the    *)
(* usage set is in the removed group of its own statement and of no other, *)
(* it is not among the kept specifiers of its statement, and once the      *)
(* edits are applied no import of the file binds that name.                *)
(***************************************************************************)
C2_Completeness ==
    /\ pc \in {"createEdits", "analyzed"} =>
            \A k \in 1..Len(importedSymbols) :
                LET symbol == importedSymbols[k]
                    holders == {g \in 1..Len(groups) :
                                    symbol.node \in Range(groups[g].unusedNodes)}
                IN  ~isUsed(symbol) =>
                        /\ Cardinality(holders) = 1
                        /\ holders = groupsOf(symbol.parent)
                        /\ \A g \in holders :
                              /\ symbol.node \notin
                                    Range(usedSpecifiersOf(statements[symbol.parent],
                                                           groups[g].unusedNodes))
                              /\ Cardinality({j \in 1..Len(groups[g].unusedNodes) :
                                        groups[g].unusedNodes[j] = symbol.node}) = 1
    /\ Rewritten =>
            \A k \in 1..Len(importedSymbols) :
                ~isUsed(importedSymbols[k]) =>
                    \A found \in Range(bindingsOfText(document)) :
                        found.name # importedSymbols[k].name

C2_Witness ==
    /\ Rewritten
    /\ \E k \in 1..Len(importedSymbols) : ~isUsed(importedSymbols[k])
    /\ \E k \in 1..Len(importedSymbols) : isUsed(importedSymbols[k])
    /\ bindingsOfText(document) # <<>>

(***************************************************************************)
(* C3 (Whole-statement deletion).  A statement that binds names gets a     *)
(* delete range if and only if none of its bound names is kept, and the    *)
(* range runs from column 0 of its first line to column 0 of the line      *)
(* after its last line.                                                    *)
(***************************************************************************)
C3_WholeStatementDeletion ==
    Analyzed =>
        \A i \in Declarations :
            boundNames(i) # <<>> =>
                /\ (\E e \in editsOf(i) : isDeleteRange(e)) <=> (kept(i) = <<>>)
                /\ \A e \in editsOf(i) :
                        isDeleteRange(e) => e.range = wholeLines(sourceFile, statements[i])

(***************************************************************************)
(* C4 (Idempotence).  Analyzing the text that a rewrite produced returns   *)
(* no edits.                                                               *)
(***************************************************************************)
C4_Idempotence == (Analyzed /\ runs > 0 /\ applied) => edits = <<>>

(***************************************************************************)
(* C5.  The edits are in file order, every import statement contributes at *)
(* most one edit, and no two edit ranges overlap.                          *)
(***************************************************************************)
C5_OrderedDisjointEdits ==
    Analyzed =>
        /\ Len(edits) <= Len(groups)
        /\ \A g, h \in 1..Len(groups) : g < h => groups[g].declaration < groups[h].declaration
        /\ \A e, f \in 1..Len(edits) :
                e < f => /\ isBeforeOrEqual(edits[e].range.start, edits[f].range.start)
                         /\ ~rangesOverlap(edits[e].range, edits[f].range)

(***************************************************************************)
(* C6 (Frame).  Applying the edits leaves every token that is not white    *)
(* space and lies outside the import declarations with an unused binding   *)
(* in the document, in the same order.                                     *)
(***************************************************************************)
outsideText ==
    SelectSeq([i \in 1..Len(sourceFile.text) |-> i],
              LAMBDA i : /\ ~isWhitespace(sourceFile.text[i])
                         /\ ~\E d \in Declarations :
                                /\ removed(d) # <<>>
                                /\ statements[d].pos <= i /\ i < statements[d].end)

C6_Frame ==
    Rewritten =>
        isSubsequence([k \in 1..Len(outsideText) |-> sourceFile.text[outsideText[k]]],
                      SelectSeq(document, LAMBDA t : ~isWhitespace(t)))

(***************************************************************************)
(* The text that the rebuild rule gives for declaration i: "import ", the  *)
(* kept default binding, ", " if named specifiers are kept too, "{ " the   *)
(* original texts of the kept named specifiers joined by ", " and " }",    *)
(* " from ", the original module specifier and ";".                        *)
(***************************************************************************)
keptDefault(i) == SelectSeq(kept(i), LAMBDA symbol : isIdentifier(symbol.node))

keptNamed(i) == SelectSeq(kept(i), LAMBDA symbol : ~isIdentifier(symbol.node))

originalText(node) == Str(getText(node, sourceFile))

rebuiltText(i, marker) ==
    "import " \o marker
    \o (IF keptDefault(i) # <<>> THEN originalText(keptDefault(i)[1].node) ELSE "")
    \o (IF keptDefault(i) # <<>> /\ keptNamed(i) # <<>> THEN ", " ELSE "")
    \o (IF keptNamed(i) # <<>>
        THEN "{ " \o joinStr([k \in 1..Len(keptNamed(i)) |->
                                originalText(keptNamed(i)[k].node)], ", ") \o " }"
        ELSE "")
    \o " from " \o originalText(statements[i].moduleSpecifier) \o ";"

isPartial(i) == kept(i) # <<>> /\ removed(i) # <<>>

(***************************************************************************)
(* C7.  A type-only import statement with named bindings of which some     *)
(* are used and some are not is rebuilt as a type-only statement:          *)
(* import type { <survivors> } from M;                                     *)
(***************************************************************************)
C7_TypeOnlyMarkerKept ==
    Analyzed =>
        \A i \in Declarations :
            (/\ isPartial(i)
             /\ statements[i].importClause.isTypeOnly
             /\ statements[i].importClause.name = NoNode
             /\ isNamedImports(statements[i].importClause.namedBindings)) =>
                \E e \in editsOf(i) :
                    /\ e.range = getRange(sourceFile, statements[i])
                    /\ Str(e.newText) = rebuiltText(i, "type ")

C9_PropertyKeyIsNoUse ==
    pc \in {"secondPass", "group", "createEdits", "analyzed"} =>
        \A n \in Names :
            (occurrences(n) # {} /\ \A i \in occurrences(n) : isPropertyKey(i)) =>
                /\ n \notin allIdentifiers
                /\ Analyzed =>
                        \A k \in 1..Len(importedSymbols) :
                            importedSymbols[k].name = n =>
                                \E g \in groupsOf(importedSymbols[k].parent) :
                                    importedSymbols[k].node \in Range(groups[g].unusedNodes)

inUnusedNodes(symbol) ==
    \E g \in groupsOf(symbol.parent) : symbol.node \in Range(groups[g].unusedNodes)

\* the import bindings that have local name n
bindingsNamed(n) ==
    {importedSymbols[k] : k \in {j \in 1..Len(importedSymbols) : importedSymbols[j].name = n}}

\* export { n } from 'm'
isExportSpecifier(i) ==
    /\ sourceFile.text[statements[statementAt(i)].pos] = "export"
    /\ prevSig(i) \in {"{", ","} /\ nextSig(i) \in {"}", ","}

(***************************************************************************)
(* C11.  A name that stands outside its own import only as a specifier of  *)
(* another import declaration or of an export declaration                  *)
(* (export { n } from 'm') is not in the usage set, and the import         *)
(* bindings of that name are removed.                                      *)
(***************************************************************************)
C11_SpecifierIsNoUse ==
    pc \in {"secondPass", "group", "createEdits", "analyzed"} =>
        \A n \in Names :
            (\A i \in occurrences(n) : isExportSpecifier(i)) =>
                /\ n \notin allIdentifiers
                /\ Analyzed => \A symbol \in bindingsNamed(n) : inUnusedNodes(symbol)

\* name n is spelled in the content of a string literal or of a comment
inLiteralOrComment(n) ==
    \E i \in 1..Len(sourceFile.text) :
        sourceFile.text[i] \in {"\"" \o n \o "\"", "// " \o n, "/* " \o n \o " */"}

(***************************************************************************)
(* C12.  A name whose only occurrences outside the import declarations are *)
(* in the content of a string literal or in a line or block comment is not *)
(* in the usage set: its import bindings are among the unused nodes and    *)
(* their statements get an edit.  (The content of a template literal is,   *)
(* like that of a string literal, part of a literal token.)                *)
(***************************************************************************)
C12_LiteralAndCommentAreNoUse ==
    pc \in {"secondPass", "group", "createEdits", "analyzed"} =>
        \A n \in Names :
            (occurrences(n) = {} /\ inLiteralOrComment(n)) =>
                /\ n \notin allIdentifiers
                /\ Analyzed =>
                        \A symbol \in bindingsNamed(n) :
                            /\ inUnusedNodes(symbol)
                            /\ editsOf(symbol.parent) # {}

C12_Witness ==
    /\ Analyzed
    /\ \E n \in Names :
            /\ occurrences(n) = {}
            /\ \E i \in 1..Len(sourceFile.text) : sourceFile.text[i] = "\"" \o n \o "\""
            /\ bindingsNamed(n) # {}
            /\ \A symbol \in bindingsNamed(n) : editsOf(symbol.parent) # {}

\* import 'm';
isSideEffectImport(i) ==
    isImportDeclaration(statements[i]) /\ statements[i].importClause = NoNode

\* export { n } from 'm';
isReExport(i) ==
    /\ ~isImportDeclaration(statements[i])
    /\ sourceFile.text[statements[i].pos] = "export"
    /\ \E j \in statements[i].pos..(statements[i].end - 1) : sourceFile.text[j] = "from"

\* the text of statement i stands in the document
stillStands(i) ==
    LET original == getText(statements[i], sourceFile)
    IN  \E p \in 1..Len(document) :
            /\ p + Len(original) - 1 <= Len(document)
            /\ SubSeq(document, p, p + Len(original) - 1) = original

(***************************************************************************)
(* C13.  A side-effect import (import 'm') and a re-export statement       *)
(* (export { n } from 'm') contribute no bound name and are the target of  *)
(* no edit, whatever else the file contains: no group and no edit is made  *)
(* for them, no edit reaches their text, and they stand unchanged in the   *)
(* rewritten document.                                                     *)
(***************************************************************************)
C13_SideEffectAndReExportUntouched ==
    pc \in {"group", "createEdits", "analyzed"} \/ Rewritten =>
        \A i \in 1..Len(statements) :
            (isSideEffectImport(i) \/ isReExport(i)) =>
                /\ \A k \in 1..Len(importedSymbols) : importedSymbols[k].parent # i
                /\ pc # "group" => groupsOf(i) = {}
                /\ (Analyzed \/ Rewritten) =>
                        /\ editsOf(i) = {}
                        /\ \A e \in 1..Len(edits) :
                                ~rangesOverlap(edits[e].range,
                                               getRange(sourceFile, statements[i]))
                        /\ Rewritten => stillStands(i)

\* the import statements that have an unused binding
changedDeclarations == {i \in Declarations : removed(i) # <<>>}

\* the edit has the range of statement i or of its lines
isEditOf(edit, i) ==
    \/ edit.range = getRange(sourceFile, statements[i])
    \/ edit.range = wholeLines(sourceFile, statements[i])

(***************************************************************************)
(* C14.  Edits are made for changes only: an import statement all of whose *)
(* bound names are used gets no group and no edit, every edit is the edit  *)
(* of a statement with an unused binding, and no replacing edit has a new  *)
(* text equal, after trimming, to the text of the statement it replaces.   *)
(***************************************************************************)
C14_EditsOnlyForChanges ==
    Analyzed =>
        /\ \A i \in Declarations : removed(i) = <<>> => groupsOf(i) = {} /\ editsOf(i) = {}
        /\ Len(edits) <= Cardinality(changedDeclarations)
        /\ changedDeclarations = {} => edits = <<>>
        /\ \A e \in 1..Len(edits) :
                /\ \E i \in changedDeclarations : isEditOf(edits[e], i)
                /\ isReplaceRange(edits[e]) =>
                        \A i \in Declarations :
                            edits[e].range = getRange(sourceFile, statements[i]) =>
                                Str(trim(edits[e].newText))
                                    # Str(trim(getText(statements[i], sourceFile)))

C14_Witness ==
    /\ Analyzed
    /\ \E i, j \in Declarations :
            /\ boundNames(i) # <<>> /\ removed(i) = <<>> /\ editsOf(i) = {}
            /\ isPartial(j)
            /\ \E edit \in editsOf(j) : isReplaceRange(edit)

(***************************************************************************)
(* C15.  A parse failure is fail-closed: for a text in which the parser    *)
(* reports a syntax error, analyzeFile returns no edits (and the document  *)
(* is not rewritten) instead of edits computed from the tree the parser    *)
(* made up.                                                                *)
(***************************************************************************)
C15_ParseFailureFailClosed ==
    /\ Analyzed => (parseDiagnostics(sourceFile) # {} => edits = <<>>)
    /\ Rewritten => parseDiagnostics(sourceFile) = {}

\* the namespace binding of statement i is among its removed bindings
namespaceRemoved(i) ==
    /\ hasNamespace(i)
    /\ \E k \in 1..Len(removed(i)) :
            removed(i)[k].node = statements[i].importClause.namedBindings.name

(***************************************************************************)
(* C19.  When the namespace binding of a statement (import D, * as N, or  *)
(* import * as N) is removed, the edit of the statement deletes the whole  *)
(* statement and is no rebuild; and no rebuilt statement has a namespace   *)
(* binding: a statement with a namespace binding, with or without a        *)
(* default binding next to it, gets no replacing edit, and no new text     *)
(* holds an asterisk.                                                      *)
(***************************************************************************)
C19_NamespaceRemovedWhole ==
    Analyzed =>
        /\ \A i \in Declarations :
                hasNamespace(i) =>
                    /\ namespaceRemoved(i) =>
                            editsOf(i) = {TextEditDelete(wholeLines(sourceFile, statements[i]))}
                    /\ \A edit \in editsOf(i) : isDeleteRange(edit)
                    /\ \A e \in 1..Len(edits) :
                            isEditOf(edits[e], i) => isDeleteRange(edits[e])
        /\ \A e \in 1..Len(edits) : "*" \notin Range(edits[e].newText)

C19_Witness ==
    /\ Analyzed
    /\ \E i \in Declarations :
            /\ namespaceRemoved(i)
            /\ statements[i].importClause.name # NoNode
            /\ keptDefault(i) # <<>>
            /\ editsOf(i) # {}

(***************************************************************************)
(* C20.  Usage goes by spelling, without scopes: when an identifier        *)
(* spelled like the local name of an import binding stands anywhere        *)
(* outside the import declarations, be it a reference, a property name or  *)
(* a local declaration of the same name, the name is in the usage set, the *)
(* binding is not among the unused nodes, and the binding is kept: an edit *)
(* that touches its statement replaces that statement by a text that still *)
(* has the binding.                                                        *)
(***************************************************************************)
C20_ExactSpellingIsUse ==
    pc \in {"secondPass", "group", "createEdits", "analyzed"} =>
        \A n \in Names :
            occurrences(n) # {} =>
                /\ n \in allIdentifiers
                /\ Analyzed =>
                        \A symbol \in bindingsNamed(n) :
                            /\ ~inUnusedNodes(symbol)
                            /\ \A e \in 1..Len(edits) :
                                    LET range == getRange(sourceFile, statements[symbol.parent])
                                    IN  rangesOverlap(edits[e].range, range) =>
                                            /\ isReplaceRange(edits[e])
                                            /\ edits[e].range = range
                                            /\ bindsLike(edits[e].newText, symbol)

(***************************************************************************)
(* C16.  Cancellation of cleanProject.  Once cancellation is requested, no *)
(* file that has not been started is opened, analyzed or edited: no file   *)
(* is opened any more, only the file that is being processed may still get *)
(* its edits, and between two files nothing is analyzed.  The files before *)
(* the current one keep their text, edited or not.                         *)
(***************************************************************************)
C16_CancellationStopsBatch ==
    [][/\ \A k \in 1..Len(files) : k < fileIndex => files'[k] = files[k]
       /\ isCancellationRequested =>
            /\ opened' = opened
            /\ \A k \in 1..Len(files) :
                    (k # fileIndex \/ batchPc # "try") => files'[k] = files[k]
            /\ batchPc # "try" =>
                    UNCHANGED <<document, pc, sourceFile, allIdentifiers,
                                importedSymbols, unusedImportsByDeclaration, edits>>]_vars

\* the batch has ended after a cancellation: a file was edited and keeps its
\* edit, and a later file with an unused import was never opened
C16_Witness ==
    /\ batchPc = "returned"
    /\ isCancellationRequested
    /\ message = "Project scan complete"
    /\ processedCount > 0
    /\ \E j \in opened, k \in 1..Len(files) :
            /\ j < k /\ k \notin opened
            /\ files[j] = <<"b", ";">>
            /\ files[k] = unusedImportText

(***************************************************************************)
(* C17.  Failures of single files do not abort cleanProject: no failure    *)
(* ends the command before its last message, and when the command has      *)
(* returned the message of completion is shown, errorCount counts the      *)
(* files whose handling failed, and unless cancellation was requested      *)
(* every file was opened or counted as failed.                             *)
(***************************************************************************)
C17_FailureIsolation ==
    /\ batchPc # "rejected"
    /\ (batchPc = "returned" /\ Len(files) > 0) =>
            /\ message = "Project scan complete"
            /\ errorCount = Cardinality(failed)
            /\ ~isCancellationRequested => opened \cup failed = 1..Len(files)

(***************************************************************************)
(* C18.  When applyEdit does not apply the edits of a file, the failure    *)
(* reaches the caller of processFile: processFile does not return true and *)
(* cleanCurrentFile does not announce that the imports were removed.       *)
(***************************************************************************)
C18_ApplyFailureSurfaced ==
    (pc = "idle" /\ runs > 0 /\ Len(edits) > 0 /\ ~applied) =>
        /\ ~changed
        /\ message # "Unused imports removed"

\* statement i stands on several lines
isMultiLine(i) ==
    tokenStart(sourceFile.text, statements[i].pos).line
        < tokenEnd(sourceFile.text, statements[i].end - 1).line

\* from the start of the first token of statement i to the end of its last
spanOf(i) ==
    LET start == tokenStart(sourceFile.text, statements[i].pos)
        end == tokenEnd(sourceFile.text, statements[i].end - 1)
    IN  VsRange(start.line, start.character, end.line, end.character)

\* the text before statement i, the new text, and the text after statement i
replacedBy(i, newText) ==
    SubSeq(sourceFile.text, 1, statements[i].pos - 1)
    \o newText
    \o SubSeq(sourceFile.text, statements[i].end, Len(sourceFile.text))

lineBreaks(toks) == Cardinality({k \in 1..Len(toks) : toks[k] = "\n"})

\* the line breaks inside the texts of the kept specifiers of statement i
keptLineBreaks(i) ==
    Cardinality({<<k, j>> \in (1..Len(keptNamed(i))) \X (1..Len(sourceFile.text)) :
                    /\ keptNamed(i)[k].node.pos <= j /\ j < keptNamed(i)[k].node.end
                    /\ sourceFile.text[j] = "\n"})

====
